---- MODULE Spec2Model ----
(***************************************************************************)
(* HashMap<KeyType, ValueType, Hash>: a hash table with separate chaining. *)
(* The repository holds three revisions of the class:                      *)
(*   "v1"  src/hash-table.h          (expand / add, capacity = size on     *)
(*         copy and on assignment);  src/unnamed/part_000 lines 1-273 is   *)
(*         the same code statement by statement with renamed members;      *)
(*   "v3"  src/unnamed/part_000 lines 275-539 (capacityInflation,          *)
(*         checkExpansion, fillTable, self-assignment test).               *)
(* A table is the record [hasher, content, capacity, table, sz] of the     *)
(* class's five members.  content is the std::list of pairs; each list     *)
(* node has an identity (the value of a std::list iterator), and the       *)
(* bucket chains of table hold those identities.                           *)
(***************************************************************************)
EXTENDS Integers, Sequences, FiniteSets, TLC

MaxKey == 2
MaxVal == 1
MaxInput == 2

Keys == 1..MaxKey
Values == 0..MaxVal
\* ValueType(): the value-initialised mapped value of operator[].
DefaultValue == 0
\* The two objects of the program; a list node belongs to one of them.
Tables == {"A", "B"}
Revisions == {"v1", "v3"}
capacityInflation == 2
\* Hash functors: the identity (std::hash on integers) and a constant one,
\* under which every key collides.
Hashers == {[k \in Keys |-> k], [k \in Keys |-> 0]}
Pairs == [first : Keys, second : Values]
RECURSIVE SeqsUpTo(_, _)
SeqsUpTo(S, n) ==
    IF n = 0 THEN {<<>>}
    ELSE LET shorter == SeqsUpTo(S, n - 1)
         IN  shorter \cup {Append(s, x) : s \in {q \in shorter : Len(q) = n - 1}, x \in S}
Inputs == SeqsUpTo(Pairs, MaxInput)

VARIABLES
    rev,       \* the revision of the class the program is built from
    Hash,      \* the hash functor type the program instantiates the class with
    live,      \* the objects that are constructed and not yet destroyed
    tbl,       \* tbl[t]: the members of object t
    absmap,    \* absmap[t]: the mathematical key -> value map object t stands for
    last,      \* the call that produced the current state
    inserted   \* keys passed to insert since the default construction (insert-only runs)

vars == <<rev, Hash, live, tbl, absmap, last, inserted>>

----------------------------------------------------------------------------
(* std::list<std::pair<const KeyType, ValueType>> and its iterators *)

\* content.end(): the past-the-end iterator, denoting no node.
End == <<"end", 0>>

Nodes(content) == {content[i].node : i \in 1..Len(content)}

\* The node a push allocates for a pair: an address of object this's heap that
\* is not a node of the list already.  (The allocator's choice among the free
\* addresses is fixed by the key and a serial number.)
NewNode(this, content, key) ==
    <<this, key, CHOOSE n \in 1..(Len(content) + 1) :
                     /\ <<this, key, n>> \notin Nodes(content)
                     /\ \A m \in 1..(n - 1) : <<this, key, m>> \in Nodes(content)>>

\* Faulty variant of push_front: the pair is linked in at the back.
push_front_at_back(this, content, pair) ==
    content \o
        <<[node |-> NewNode(this, content, pair.first), first |-> pair.first, second |-> pair.second]>>

push_front(this, content, pair) ==
    <<[node |-> NewNode(this, content, pair.first), first |-> pair.first, second |-> pair.second]>>
        \o content

push_back(this, content, pair) ==
    Append(content,
           [node |-> NewNode(this, content, pair.first), first |-> pair.first, second |-> pair.second])

\* content.begin()
begin(content) == IF content = <<>> THEN End ELSE content[1].node

\* ++it for an iterator to a node of content: the next node, end() after the last.
increment(content, it) ==
    LET i == CHOOSE i \in 1..Len(content) : content[i].node = it
    IN  IF i = Len(content) THEN End ELSE content[i + 1].node

\* *it for an iterator into content; an iterator to no node of the list reads
\* no pair (first and second are not a key and not a value).
Dangling == [node |-> End, first |-> 0 - 1, second |-> 0 - 1]
Deref(content, it) ==
    IF it \in Nodes(content)
    THEN content[CHOOSE i \in 1..Len(content) : content[i].node = it]
    ELSE Dangling

\* for (it = begin(); it != end(); ++it): the pairs *it in the order visited
\* (at most limit of them).
RECURSIVE Visit(_, _, _)
Visit(content, it, limit) ==
    IF it = End \/ limit = 0 THEN <<>>
    ELSE <<Deref(content, it)>> \o Visit(content, increment(content, it), limit - 1)

Iteration(h) == Visit(h.content, begin(h.content), Len(h.content) + 1)

\* Faulty variant of list_erase: the front node is unlinked, whatever it denotes.
list_erase_front(content, it) ==
    IF content = <<>> THEN content
    ELSE SelectSeq(content, LAMBDA r : r.node # content[1].node)

\* content.erase(it): unlinks the node it denotes, the others keep their order.
list_erase(content, it) == SelectSeq(content, LAMBDA r : r.node # it)

\* The list copy constructor / range constructor: fresh nodes, same pairs, same order.
RECURSIVE list_copy(_, _, _)
list_copy(this, acc, src) ==
    IF src = <<>> THEN acc
    ELSE list_copy(this, push_back(this, acc, Head(src)), Tail(src))

\* std::vector<std::list<iterator>>(n): n empty chains; bucket b is at index b + 1.
RECURSIVE EmptyTable(_)
EmptyTable(n) == IF n = 0 THEN <<>> ELSE Append(EmptyTable(n - 1), <<>>)

----------------------------------------------------------------------------
(* Private members *)

\* hasher(key) % capacity
Bucket(h, key) == h.hasher[key] % h.capacity

\* table[hash].push_back(it)
chain_push_back(table, hash, it) ==
    [table EXCEPT ![hash + 1] = Append(@, it)]

\* Faulty variant of fillLoop: the bucket is not recomputed from the key.
RECURSIVE fillLoop_unhashed(_, _, _, _)
fillLoop_unhashed(hasher, capacity, table, rest) ==
    IF rest = <<>> THEN table
    ELSE fillLoop_unhashed(hasher, capacity,
                           chain_push_back(table, 0, Head(rest).node), Tail(rest))

\* Faulty variant of fillLoop: only the last node of the list is put into the table.
fillLoop_last_only(hasher, capacity, table, rest) ==
    IF rest = <<>> THEN table
    ELSE chain_push_back(table, hasher[rest[Len(rest)].first] % capacity,
                         rest[Len(rest)].node)

\* The loop of expand / fillTable / the copy constructor / operator=:
\* every node of content, in list order, is appended to the chain of its key.
RECURSIVE fillLoop(_, _, _, _)
fillLoop(hasher, capacity, table, rest) ==
    IF rest = <<>> THEN table
    ELSE fillLoop(hasher, capacity,
                  chain_push_back(table, hasher[Head(rest).first] % capacity, Head(rest).node),
                  Tail(rest))

fillTable(h) ==
    [h EXCEPT !.table = fillLoop(h.hasher, h.capacity, h.table, h.content)]

\* v1: doubles the capacity and rebuilds the table.
expand(h) ==
    LET capacity == h.capacity * 2
    IN  [h EXCEPT !.capacity = capacity,
                  !.table = fillLoop(h.hasher, capacity, EmptyTable(capacity), h.content)]

\* v3: doubles the capacity and rebuilds the table if size reached capacity.
checkExpansion(h) ==
    IF h.sz >= h.capacity
    THEN LET capacity == h.capacity * capacityInflation
         IN  fillTable([h EXCEPT !.capacity = capacity, !.table = EmptyTable(capacity)])
    ELSE h

add_v1(this, h, insertValue) ==
    LET h1 == [h EXCEPT !.sz = @ + 1]
        h2 == IF h1.sz = h1.capacity THEN expand(h1) ELSE h1
        hash == Bucket(h2, insertValue.first)
        content == push_front(this, h2.content, insertValue)
    IN  [h2 EXCEPT !.content = content,
                   !.table = chain_push_back(h2.table, hash, begin(content))]

add_v3(this, h, insertValue) ==
    LET content == push_front(this, h.content, insertValue)
        hash == h.hasher[insertValue.first]
        h1 == [h EXCEPT !.sz = @ + 1,
                        !.content = content,
                        !.table = chain_push_back(h.table, hash % h.capacity, begin(content))]
    IN  checkExpansion(h1)

add(this, h, insertValue) ==
    IF rev = "v1" THEN add_v1(this, h, insertValue) ELSE add_v3(this, h, insertValue)

----------------------------------------------------------------------------
(* Constructors *)

\* Faulty variant of HashMapDefault: the table is constructed with no bucket.
HashMapDefault_zero(hasher) ==
    [hasher |-> hasher, content |-> <<>>, capacity |-> 0, table |-> <<>>, sz |-> 0]

\* HashMap(const Hash& _hasher = Hash())
HashMapDefault(hasher) ==
    [hasher |-> hasher, content |-> <<>>, capacity |-> 1, table |-> EmptyTable(1), sz |-> 0]

\* Faulty variant of ctorLoop: every pair is pushed, its key is not looked up.
RECURSIVE ctorLoop_unchecked(_, _, _)
ctorLoop_unchecked(this, h, input) ==
    IF input = <<>> THEN h
    ELSE LET it == Head(input)
             hash == Bucket(h, it.first)
             content == push_front(this, h.content, it)
         IN  ctorLoop_unchecked(this,
                                [h EXCEPT !.content = content,
                                          !.table = chain_push_back(h.table, hash, begin(content)),
                                          !.sz = @ + 1],
                                Tail(input))

\* The loop of the v1 sequence constructors (and of the v3 initializer-list
\* constructor): a pair whose key is already in its chain is skipped, the
\* others are pushed to the front; the capacity stays as constructed.
RECURSIVE ctorLoop(_, _, _)
ctorLoop(this, h, input) ==
    IF input = <<>> THEN h
    ELSE LET it == Head(input)
             hash == Bucket(h, it.first)
             chain == h.table[hash + 1]
             flag == \E i \in 1..Len(chain) : Deref(h.content, chain[i]).first = it.first
             content == push_front(this, h.content, it)
         IN  IF flag THEN ctorLoop(this, h, Tail(input))
             ELSE ctorLoop(this,
                           [h EXCEPT !.content = content,
                                     !.table = chain_push_back(h.table, hash, begin(content)),
                                     !.sz = @ + 1],
                           Tail(input))

\* v3 iterator constructor: the same loop followed by checkExpansion per pair.
RECURSIVE ctorLoopGrow(_, _, _)
ctorLoopGrow(this, h, input) ==
    IF input = <<>> THEN h
    ELSE LET it == Head(input)
             hash == h.hasher[it.first]
             chain == h.table[(hash % h.capacity) + 1]
             flag == \E i \in 1..Len(chain) : Deref(h.content, chain[i]).first = it.first
             content == push_front(this, h.content, it)
         IN  IF flag THEN ctorLoopGrow(this, h, Tail(input))
             ELSE ctorLoopGrow(this,
                               checkExpansion(
                                   [h EXCEPT !.sz = @ + 1,
                                             !.content = content,
                                             !.table = chain_push_back(h.table, hash % h.capacity,
                                                                       begin(content))]),
                               Tail(input))

\* v1: both sequence constructors size the table to the input length.
HashMapSeq_v1(this, input, hasher) ==
    IF Len(input) = 0 THEN HashMapDefault(hasher)
    ELSE ctorLoop(this,
                  [hasher |-> hasher, content |-> <<>>, capacity |-> Len(input),
                   table |-> EmptyTable(Len(input)), sz |-> 0],
                  input)

\* v3 HashMap(inputBegin, inputEnd): starts at capacity 1 and grows.
HashMapRange_v3(this, input, hasher) ==
    ctorLoopGrow(this, HashMapDefault(hasher), input)

\* v3 HashMap(initializer_list): capacity input.size() * capacityInflation.
HashMapInitList_v3(this, input, hasher) ==
    IF Len(input) = 0 THEN HashMapDefault(hasher)
    ELSE ctorLoop(this,
                  [hasher |-> hasher, content |-> <<>>,
                   capacity |-> Len(input) * capacityInflation,
                   table |-> EmptyTable(Len(input) * capacityInflation), sz |-> 0],
                  input)

HashMapRange(this, input, hasher) ==
    IF rev = "v1" THEN HashMapSeq_v1(this, input, hasher)
    ELSE HashMapRange_v3(this, input, hasher)

HashMapInitList(this, input, hasher) ==
    IF rev = "v1" THEN HashMapSeq_v1(this, input, hasher)
    ELSE HashMapInitList_v3(this, input, hasher)

\* Faulty variant of HashMapCopy: the list is not copied, the new object's
\* iterators point into the other object's nodes.
HashMapCopy_shared(this, other) ==
    LET n == IF rev = "v1" THEN other.sz ELSE other.sz * capacityInflation
        capacity == IF n = 0 THEN 1 ELSE n
    IN  fillTable([hasher |-> other.hasher,
                   content |-> other.content,
                   capacity |-> capacity,
                   table |-> EmptyTable(capacity),
                   sz |-> other.sz])

\* Copy constructor: content is copied node by node; the capacity is
\* other.size() in v1 and other.size() * capacityInflation in v3, 1 when that is 0.
HashMapCopy(this, other) ==
    LET n == IF rev = "v1" THEN other.sz ELSE other.sz * capacityInflation
        capacity == IF n = 0 THEN 1 ELSE n
    IN  fillTable([hasher |-> other.hasher,
                   content |-> list_copy(this, <<>>, other.content),
                   capacity |-> capacity,
                   table |-> EmptyTable(capacity),
                   sz |-> other.sz])

----------------------------------------------------------------------------
(* Public member functions *)

\* Faulty variant of unmodified: the call empties the first chain of the table.
unmodified_but_chain(h) == [h EXCEPT !.table[1] = <<>>]

\* The members after size(), empty(), hash_function(), find(key), at(key),
\* begin(), end(), cbegin(), cend() and ++it: none of these functions holds an
\* assignment to a member or calls one that does.
unmodified(h) == h

size(h) == h.sz

empty(h) == h.content = <<>>

hash_function(h) == h.hasher

\* Faulty variant of findIn: only the first iterator of the chain is compared.
findIn_head(content, chain, key) ==
    IF chain = <<>> THEN End
    ELSE IF Deref(content, Head(chain)).first = key THEN Head(chain)
    ELSE End

RECURSIVE findIn(_, _, _)
findIn(content, chain, key) ==
    IF chain = <<>> THEN End
    ELSE IF Deref(content, Head(chain)).first = key THEN Head(chain)
    ELSE findIn(content, Tail(chain), key)

\* find(key): the first iterator of the key's chain whose pair has the key, else end().
find(h, key) == findIn(h.content, h.table[Bucket(h, key) + 1], key)

\* Faulty variant of insert: the pair is added without looking the key up.
insert_unchecked(this, h, insertValue) == add(this, h, insertValue)

\* Faulty variant of insert: a stored key's value is overwritten.
insert_overwrite(this, h, insertValue) ==
    LET it == findIn(h.content, h.table[Bucket(h, insertValue.first) + 1], insertValue.first)
    IN  IF it # End
        THEN [h EXCEPT !.content =
                 [i \in 1..Len(@) |-> IF @[i].node = it
                                      THEN [@[i] EXCEPT !.second = insertValue.second]
                                      ELSE @[i]]]
        ELSE add(this, h, insertValue)

\* insert(pair): nothing if the key is found in its chain, add(pair) otherwise.
insert(this, h, insertValue) ==
    IF find(h, insertValue.first) # End THEN h ELSE add(this, h, insertValue)

\* Faulty variant of chain_erase: the whole chain is emptied.
chain_erase_all(content, chain, key) == <<>>

\* table[hash].erase(it) for the first iterator of the chain whose pair has the key.
RECURSIVE chain_erase(_, _, _)
chain_erase(content, chain, key) ==
    IF chain = <<>> THEN <<>>
    ELSE IF Deref(content, Head(chain)).first = key THEN Tail(chain)
    ELSE <<Head(chain)>> \o chain_erase(content, Tail(chain), key)

\* Faulty variant of erase: sz is not decremented.
erase_keep_sz(h, key) ==
    LET hash == Bucket(h, key)
        it == findIn(h.content, h.table[hash + 1], key)
    IN  IF it = End THEN h
        ELSE [h EXCEPT !.content = list_erase(@, it),
                       !.table[hash + 1] = chain_erase(h.content, @, key)]

\* Faulty variant of erase: sz is decremented whether or not the key is found.
erase_dec_always(h, key) ==
    LET hash == Bucket(h, key)
        it == findIn(h.content, h.table[hash + 1], key)
    IN  IF it = End THEN [h EXCEPT !.sz = @ - 1]
        ELSE [h EXCEPT !.content = list_erase(@, it),
                       !.table[hash + 1] = chain_erase(h.content, @, key),
                       !.sz = @ - 1]

erase(h, key) ==
    LET hash == Bucket(h, key)
        it == findIn(h.content, h.table[hash + 1], key)
    IN  IF it = End THEN h
        ELSE [h EXCEPT !.content = list_erase(@, it),
                       !.table[hash + 1] = chain_erase(h.content, @, key),
                       !.sz = @ - 1]

\* Faulty variant of subscript: for a missing key the reference is taken from begin()
\* before add() has pushed the new pair.
subscript_old_front(this, h, key) ==
    LET it == find(h, key)
        added == add(this, h, [first |-> key, second |-> DefaultValue])
    IN  IF it = End THEN [map |-> added, ref |-> begin(h.content)]
        ELSE [map |-> h, ref |-> it]

\* Faulty variant of subscript: the reference is always taken from begin().
subscript_front_ref(this, h, key) ==
    LET it == find(h, key)
        added == add(this, h, [first |-> key, second |-> DefaultValue])
    IN  IF it = End THEN [map |-> added, ref |-> begin(added.content)]
        ELSE [map |-> h, ref |-> begin(h.content)]

\* operator[](key): the table afterwards and the node whose second is returned
\* by reference (begin() after add when the key was missing).
subscript(this, h, key) ==
    LET it == find(h, key)
        added == add(this, h, [first |-> key, second |-> DefaultValue])
    IN  IF it = End THEN [map |-> added, ref |-> begin(added.content)]
        ELSE [map |-> h, ref |-> it]

\* A write through the reference operator[] returned.
RECURSIVE write_second(_, _, _)
write_second(content, ref, value) ==
    IF content = <<>> THEN <<>>
    ELSE <<IF Head(content).node = ref
           THEN [Head(content) EXCEPT !.second = value]
           ELSE Head(content)>> \o write_second(Tail(content), ref, value)

assign_through(h, ref, value) ==
    [h EXCEPT !.content = write_second(@, ref, value)]

\* Faulty variant of at: the value of the first pair of the key's chain is
\* returned without comparing its key.
at_chain_front(h, key) ==
    LET chain == h.table[Bucket(h, key) + 1]
    IN  IF chain = <<>> THEN [thrown |-> TRUE, value |-> 0 - 1]
        ELSE [thrown |-> FALSE, value |-> Deref(h.content, chain[1]).second]

\* at(key): returns the value, or throws std::out_of_range.
KeyNotFound == [thrown |-> TRUE, value |-> 0 - 1]
at(h, key) ==
    LET it == find(h, key)
    IN  IF it = End THEN KeyNotFound
        ELSE [thrown |-> FALSE, value |-> Deref(h.content, it).second]

\* Faulty variant of clearLoop: only the chain of the first pair is emptied.
clearLoop_first(hasher, capacity, table, rest) ==
    IF rest = <<>> THEN table
    ELSE [table EXCEPT ![(hasher[rest[1].first] % capacity) + 1] = <<>>]

\* clear(): empties the chain of every stored key, then the list.
RECURSIVE clearLoop(_, _, _, _)
clearLoop(hasher, capacity, table, rest) ==
    IF rest = <<>> THEN table
    ELSE clearLoop(hasher, capacity,
                   [table EXCEPT ![(hasher[Head(rest).first] % capacity) + 1] = <<>>],
                   Tail(rest))

clear(h) ==
    [h EXCEPT !.table = clearLoop(h.hasher, h.capacity, h.table, h.content),
              !.content = <<>>,
              !.sz = 0]

\* The pop_front loop of the v1 operator=.
RECURSIVE pop_front_n(_, _)
pop_front_n(content, n) ==
    IF n = 0 \/ content = <<>> THEN content ELSE pop_front_n(Tail(content), n - 1)

\* The first n pairs of a list, read through an iterator from its begin().
Prefix(content, n) == SubSeq(content, 1, n)

\* v1 operator=: appends other's pairs, pops the my_size old ones, sets the
\* capacity to size() (still the old size), rebuilds the table, then sets sz.
assign_v1(this, h, other) ==
    LET other_size == other.sz
        my_size == h.sz
        appended == list_copy(this, h.content, Prefix(other.content, other_size))
        content == pop_front_n(appended, my_size)
        capacity == IF my_size = 0 THEN 1 ELSE my_size
    IN  [hasher |-> h.hasher,
         content |-> content,
         capacity |-> capacity,
         table |-> fillLoop(h.hasher, capacity, EmptyTable(capacity), content),
         sz |-> other_size]

\* v3 operator= between distinct objects: clear(), copy the list, grow the
\* table to other.size() * capacityInflation if it is smaller, fillTable().
assign_v3(this, h, other) ==
    LET h1 == clear(h)
        n == other.sz * capacityInflation
        h2 == [h1 EXCEPT !.content = list_copy(this, <<>>, other.content),
                         !.sz = other.sz]
        h3 == IF h2.capacity < n
              THEN [h2 EXCEPT !.capacity = n,
                              !.table = @ \o EmptyTable(n - Len(@))]
              ELSE h2
    IN  fillTable(h3)

\* Faulty variant of assign: the pairs of other are added behind those the
\* object holds, which are not removed.
assign_append(this, h, other, self) ==
    LET content == list_copy(this, h.content, other.content)
    IN  [hasher |-> h.hasher,
         content |-> content,
         capacity |-> h.capacity,
         table |-> fillLoop(h.hasher, h.capacity, EmptyTable(h.capacity), content),
         sz |-> Len(content)]

\* Faulty variant of assign: the v3 operator= without the test for
\* self-assignment; other is then the object clear() has just emptied.
assign_no_self_test(this, h, other, self) ==
    IF rev = "v1" THEN assign_v1(this, h, other)
    ELSE assign_v3(this, h, IF self THEN clear(h) ELSE other)

\* operator=(other); self is TRUE when other is *this.
assign(this, h, other, self) ==
    IF rev = "v1" THEN assign_v1(this, h, other)
    ELSE IF self THEN h
    ELSE assign_v3(this, h, other)

----------------------------------------------------------------------------
(* Accesses with undefined behaviour.  X_faults is TRUE when the member       *)
(* function X, run on the given members, evaluates hasher(key) % capacity     *)
(* with capacity 0, indexes table at or beyond table.size(), reads through    *)
(* the end() iterator, or pops or dereferences the front of an empty list.    *)

\* table[hashval % capacity]
BadAccess(capacity, table, hashval) ==
    capacity = 0 \/ (hashval % capacity) >= Len(table)

\* The loops over content of expand, fillTable, clear, the copy constructor and
\* the v1 operator=: one access per stored pair, capacity and table.size() fixed.
fillLoop_faults(hasher, capacity, table, content) ==
    \E i \in 1..Len(content) : BadAccess(capacity, table, hasher[content[i].first])

find_faults(h, key) == BadAccess(h.capacity, h.table, h.hasher[key])

expand_faults(h) ==
    fillLoop_faults(h.hasher, h.capacity * 2, EmptyTable(h.capacity * 2), h.content)

checkExpansion_faults(h) ==
    /\ h.sz >= h.capacity
    /\ fillLoop_faults(h.hasher, h.capacity * capacityInflation,
                       EmptyTable(h.capacity * capacityInflation), h.content)

\* v1 add: the modulus before the test, expand(), the access after it.
add_v1_faults(this, h, insertValue) ==
    LET h1 == [h EXCEPT !.sz = @ + 1]
    IN  \/ h.capacity = 0
        \/ h1.sz = h1.capacity /\ expand_faults(h1)
        \/ LET h2 == IF h1.sz = h1.capacity THEN expand(h1) ELSE h1
           IN  BadAccess(h2.capacity, h2.table, h2.hasher[insertValue.first])

\* v3 add: the access after push_front, then checkExpansion().
add_v3_faults(this, h, insertValue) ==
    \/ BadAccess(h.capacity, h.table, h.hasher[insertValue.first])
    \/ checkExpansion_faults([h EXCEPT !.sz = @ + 1,
                                       !.content = push_front(this, h.content, insertValue)])

add_faults(this, h, insertValue) ==
    IF rev = "v1" THEN add_v1_faults(this, h, insertValue)
    ELSE add_v3_faults(this, h, insertValue)

insert_faults(this, h, insertValue) ==
    IF find_faults(h, insertValue.first) THEN TRUE
    ELSE find(h, insertValue.first) = End /\ add_faults(this, h, insertValue)

erase_faults(h, key) == find_faults(h, key)

\* operator[]: find, add for a missing key, then begin()->second.
subscript_faults(this, h, key) ==
    IF find_faults(h, key) THEN TRUE
    ELSE /\ find(h, key) = End
         /\ \/ add_faults(this, h, [first |-> key, second |-> DefaultValue])
            \/ begin(subscript(this, h, key).map.content) = End

clear_faults(h) == fillLoop_faults(h.hasher, h.capacity, h.table, h.content)

\* The copy constructor's loop over the copied list.
HashMapCopy_faults(this, other) ==
    LET n == IF rev = "v1" THEN other.sz ELSE other.sz * capacityInflation
        capacity == IF n = 0 THEN 1 ELSE n
    IN  fillLoop_faults(other.hasher, capacity, EmptyTable(capacity), other.content)

\* v1 operator=: other_size reads through _it, my_size pop_front calls, the
\* loop over the new list.
assign_v1_faults(this, h, other) ==
    IF other.sz > Len(other.content) THEN TRUE
    ELSE IF h.sz > Len(h.content) + other.sz THEN TRUE
    ELSE LET capacity == IF h.sz = 0 THEN 1 ELSE h.sz
         IN  fillLoop_faults(h.hasher, capacity, EmptyTable(capacity),
                             pop_front_n(h.content \o Prefix(other.content, other.sz), h.sz))

\* v3 operator= between distinct objects: clear(), then fillTable() on the
\* resized table.
assign_v3_faults(this, h, other) ==
    \/ clear_faults(h)
    \/ LET n == other.sz * capacityInflation
           capacity == IF h.capacity < n THEN n ELSE h.capacity
           length == IF h.capacity < n THEN n ELSE Len(h.table)
       IN  fillLoop_faults(h.hasher, capacity, EmptyTable(length), other.content)

assign_faults(this, h, other, self) ==
    IF rev = "v1" THEN assign_v1_faults(this, h, other)
    ELSE ~self /\ assign_v3_faults(this, h, other)

\* v1 sequence constructors: one access per input pair, capacity fixed.
HashMapSeq_v1_faults(input, hasher) ==
    /\ Len(input) # 0
    /\ \E i \in 1..Len(input) :
           BadAccess(Len(input), EmptyTable(Len(input)), hasher[input[i].first])

\* v3 iterator constructor: per input pair the access of the lookup and the
\* push, then checkExpansion().
RECURSIVE ctorLoopGrow_faults(_, _, _)
ctorLoopGrow_faults(this, h, input) ==
    IF input = <<>> THEN FALSE
    ELSE IF BadAccess(h.capacity, h.table, h.hasher[Head(input).first]) THEN TRUE
    ELSE LET chain == h.table[(h.hasher[Head(input).first] % h.capacity) + 1]
             flag == \E i \in 1..Len(chain) :
                         Deref(h.content, chain[i]).first = Head(input).first
         IN  \/ /\ ~flag
                /\ checkExpansion_faults(
                       [h EXCEPT !.sz = @ + 1,
                                 !.content = push_front(this, h.content, Head(input))])
             \/ ctorLoopGrow_faults(this, ctorLoopGrow(this, h, <<Head(input)>>), Tail(input))

HashMapInitList_v3_faults(input, hasher) ==
    /\ Len(input) # 0
    /\ \E i \in 1..Len(input) :
           BadAccess(Len(input) * capacityInflation,
                     EmptyTable(Len(input) * capacityInflation), hasher[input[i].first])

HashMapRange_faults(this, input, hasher) ==
    IF rev = "v1" THEN HashMapSeq_v1_faults(input, hasher)
    ELSE ctorLoopGrow_faults(this, HashMapDefault(hasher), input)

HashMapInitList_faults(this, input, hasher) ==
    IF rev = "v1" THEN HashMapSeq_v1_faults(input, hasher)
    ELSE HashMapInitList_v3_faults(input, hasher)

----------------------------------------------------------------------------
(* The mathematical map a table stands for *)

EmptyMap == [x \in {} |-> DefaultValue]

AbsInsert(m, k, v) ==
    IF k \in DOMAIN m THEN m
    ELSE [x \in (DOMAIN m) \cup {k} |-> IF x = k THEN v ELSE m[x]]

AbsErase(m, k) == [x \in (DOMAIN m) \ {k} |-> m[x]]

AbsAssign(m, k, v) == [x \in (DOMAIN m) \cup {k} |-> IF x = k THEN v ELSE m[x]]

RECURSIVE AbsFromSeq(_, _)
AbsFromSeq(m, input) ==
    IF input = <<>> THEN m
    ELSE AbsFromSeq(AbsInsert(m, Head(input).first, Head(input).second), Tail(input))

----------------------------------------------------------------------------
(* The program: calls on the two objects *)

NoKey == 0 - 1
NoVal == 0 - 1
\* What a call that returns nothing returns.
NoReturn == [thrown |-> FALSE, value |-> NoVal]
\* A call: the member function, the object it is called on, its key and value
\* arguments, the other object (copy, assignment), whether the key was
\* stored in the object when the call was made, the object's size() and
\* capacity when the call was made (0 for an object under construction), the
\* sequence a sequence constructor was given, and what the call returned.
Call(op, t, k, v, o) ==
    [op |-> op, t |-> t, k |-> k, v |-> v, o |-> o,
     hit |-> IF k \in Keys THEN find(tbl[t], k) # End ELSE FALSE,
     n |-> IF t \in live THEN size(tbl[t]) ELSE 0,
     c |-> IF t \in live THEN tbl[t].capacity ELSE 0,
     input |-> <<>>,
     ret |-> NoReturn]

Init ==
    /\ rev \in Revisions
    /\ Hash \in Hashers
    /\ live = {}
    /\ tbl = [t \in Tables |-> HashMapDefault(Hash)]
    /\ absmap = [t \in Tables |-> EmptyMap]
    /\ last = Call("init", "A", NoKey, NoVal, "A")
    /\ inserted = [t \in Tables |-> {}]

\* HashMap m: object t is default-constructed.
ConstructDefault(t) ==
    /\ t \notin live
    /\ live' = live \cup {t}
    /\ tbl' = [tbl EXCEPT ![t] = HashMapDefault(Hash)]
    /\ absmap' = [absmap EXCEPT ![t] = EmptyMap]
    /\ last' = Call("HashMap", t, NoKey, NoVal, t)
    /\ UNCHANGED <<rev, Hash, inserted>>

\* HashMap m(input.begin(), input.end())
ConstructRange(t, input) ==
    /\ t \notin live
    /\ live' = live \cup {t}
    /\ tbl' = [tbl EXCEPT ![t] = HashMapRange(t, input, Hash)]
    /\ absmap' = [absmap EXCEPT ![t] = AbsFromSeq(EmptyMap, input)]
    /\ last' = [Call("HashMapRange", t, NoKey, NoVal, t) EXCEPT !.input = input]
    /\ UNCHANGED <<rev, Hash, inserted>>

\* HashMap m({...})
ConstructInitList(t, input) ==
    /\ t \notin live
    /\ live' = live \cup {t}
    /\ tbl' = [tbl EXCEPT ![t] = HashMapInitList(t, input, Hash)]
    /\ absmap' = [absmap EXCEPT ![t] = AbsFromSeq(EmptyMap, input)]
    /\ last' = [Call("HashMapInitList", t, NoKey, NoVal, t) EXCEPT !.input = input]
    /\ UNCHANGED <<rev, Hash, inserted>>

\* HashMap t(o): object t is constructed as a copy of the other object o.
ConstructCopy(t, o) ==
    /\ t \notin live /\ o \in live
    /\ live' = live \cup {t}
    /\ tbl' = [tbl EXCEPT ![t] = HashMapCopy(t, tbl[o])]
    /\ absmap' = [absmap EXCEPT ![t] = absmap[o]]
    /\ last' = Call("HashMapCopy", t, NoKey, NoVal, o)
    /\ UNCHANGED <<rev, Hash, inserted>>

\* t = o, o = t included (self-assignment).
Assign(t, o) ==
    /\ t \in live /\ o \in live
    /\ tbl' = [tbl EXCEPT ![t] = assign(t, tbl[t], tbl[o], t = o)]
    /\ absmap' = [absmap EXCEPT ![t] = absmap[o]]
    /\ last' = Call("operator=", t, NoKey, NoVal, o)
    /\ UNCHANGED <<rev, Hash, live, inserted>>

\* ~HashMap: object t is destroyed; its slot holds no members until a
\* constructor runs (tbl[t] is then a placeholder no call reads).
Destroy(t) ==
    /\ t \in live
    /\ live' = live \ {t}
    /\ tbl' = [tbl EXCEPT ![t] = HashMapDefault(Hash)]
    /\ absmap' = [absmap EXCEPT ![t] = EmptyMap]
    /\ last' = Call("~HashMap", t, NoKey, NoVal, t)
    /\ UNCHANGED <<rev, Hash, inserted>>

InsertStep(t, k, v) ==
    /\ t \in live
    /\ tbl' = [tbl EXCEPT ![t] = insert(t, tbl[t], [first |-> k, second |-> v])]
    /\ absmap' = [absmap EXCEPT ![t] = AbsInsert(@, k, v)]
    /\ last' = Call("insert", t, k, v, t)
    /\ UNCHANGED <<rev, Hash, live>>

Insert(t, k, v) == InsertStep(t, k, v) /\ UNCHANGED inserted

Erase(t, k) ==
    /\ t \in live
    /\ tbl' = [tbl EXCEPT ![t] = erase(tbl[t], k)]
    /\ absmap' = [absmap EXCEPT ![t] = AbsErase(@, k)]
    /\ last' = Call("erase", t, k, NoVal, t)
    /\ UNCHANGED <<rev, Hash, live, inserted>>

\* t[k] = v
SubscriptAssign(t, k, v) ==
    /\ t \in live
    /\ LET r == subscript(t, tbl[t], k)
       IN  tbl' = [tbl EXCEPT ![t] = assign_through(r.map, r.ref, v)]
    /\ absmap' = [absmap EXCEPT ![t] = AbsAssign(@, k, v)]
    /\ last' = Call("operator[]", t, k, v, t)
    /\ UNCHANGED <<rev, Hash, live, inserted>>

Clear(t) ==
    /\ t \in live
    /\ tbl' = [tbl EXCEPT ![t] = clear(tbl[t])]
    /\ absmap' = [absmap EXCEPT ![t] = EmptyMap]
    /\ last' = Call("clear", t, NoKey, NoVal, t)
    /\ UNCHANGED <<rev, Hash, live, inserted>>

Next ==
    \/ \E t \in Tables : ConstructDefault(t)
    \/ \E t \in Tables, input \in Inputs : ConstructRange(t, input)
    \/ \E t \in Tables, input \in Inputs : ConstructInitList(t, input)
    \/ \E t \in Tables, o \in Tables : ConstructCopy(t, o)
    \/ \E t \in Tables, o \in Tables : Assign(t, o)
    \/ \E t \in Tables, k \in Keys, v \in Values : Insert(t, k, v)
    \/ \E t \in Tables, k \in Keys : Erase(t, k)
    \/ \E t \in Tables, k \in Keys, v \in Values : SubscriptAssign(t, k, v)
    \/ \E t \in Tables : Clear(t)
    \/ \E t \in Tables : Destroy(t)

Spec == Init /\ [][Next]_vars

----------------------------------------------------------------------------
(* A program with the single object "A": every constructor but the copy      *)
(* constructor, every member function, self-assignment, destruction.         *)

NextOne ==
    \/ ConstructDefault("A")
    \/ \E input \in Inputs : ConstructRange("A", input)
    \/ \E input \in Inputs : ConstructInitList("A", input)
    \/ Assign("A", "A")
    \/ \E k \in Keys, v \in Values : Insert("A", k, v)
    \/ \E k \in Keys : Erase("A", k)
    \/ \E k \in Keys, v \in Values : SubscriptAssign("A", k, v)
    \/ Clear("A")
    \/ Destroy("A")

SpecOne == Init /\ [][NextOne]_vars

----------------------------------------------------------------------------
(* Insert-only runs: the object "A" starts empty and only insert is called   *)
(* on it; inserted[t] is the set of keys passed to insert since t was last   *)
(* empty by construction or by clear().                                      *)

InitInserts ==
    /\ rev \in Revisions
    /\ Hash \in Hashers
    /\ live = {"A"}
    /\ tbl = [t \in Tables |-> HashMapDefault(Hash)]
    /\ absmap = [t \in Tables |-> EmptyMap]
    /\ last = Call("HashMap", "A", NoKey, NoVal, "A")
    /\ inserted = [t \in Tables |-> {}]

InsertOnly(t, k, v) ==
    /\ InsertStep(t, k, v)
    /\ inserted' = [inserted EXCEPT ![t] = @ \cup {k}]

\* clear() on t: a new insert-only run starts on the emptied table, which
\* keeps its capacity.
StartOver(t) ==
    /\ t \in live
    /\ tbl' = [tbl EXCEPT ![t] = clear(tbl[t])]
    /\ absmap' = [absmap EXCEPT ![t] = EmptyMap]
    /\ last' = Call("clear", t, NoKey, NoVal, t)
    /\ inserted' = [inserted EXCEPT ![t] = {}]
    /\ UNCHANGED <<rev, Hash, live>>

NextInserts ==
    \/ \E k \in Keys, v \in Values : InsertOnly("A", k, v)
    \/ StartOver("A")

SpecInserts == InitInserts /\ [][NextInserts]_vars

----------------------------------------------------------------------------
(* A program with the single object "A" that also calls the members that   *)
(* only read.  at(key) is const; the call assigns to no member, and last     *)
(* records what it returned or that it threw.                                *)

At(t, k) ==
    /\ t \in live
    /\ last' = [Call("at", t, k, NoVal, t) EXCEPT !.ret = at(tbl[t], k)]
    /\ UNCHANGED <<rev, Hash, live, tbl, absmap, inserted>>

\* The other functions that only read; last records what they returned (for
\* the iteration, the pairs visited).
Query(op, t, k, value) ==
    /\ t \in live
    /\ tbl' = [tbl EXCEPT ![t] = unmodified(tbl[t])]
    /\ last' = [Call(op, t, k, NoVal, t) EXCEPT !.ret = [thrown |-> FALSE, value |-> value]]
    /\ UNCHANGED <<rev, Hash, live, absmap, inserted>>

Size(t) == Query("size", t, NoKey, size(tbl[t]))

Empty(t) == Query("empty", t, NoKey, empty(tbl[t]))

HashFunction(t) == Query("hash_function", t, NoKey, hash_function(tbl[t]))

Find(t, k) == Query("find", t, k, find(tbl[t], k))

Iterate(t) == Query("iteration", t, NoKey, Iteration(tbl[t]))

NextQuery ==
    \/ NextOne
    \/ \E k \in Keys : At("A", k)
    \/ Size("A")
    \/ Empty("A")
    \/ HashFunction("A")
    \/ \E k \in Keys : Find("A", k)
    \/ Iterate("A")

SpecQuery == Init /\ [][NextQuery]_vars

----------------------------------------------------------------------------
(* A program that copies: the object "A" is constructed from nothing or from *)
(* a sequence, the object "B" is copy-constructed from "A" (and destroyed,   *)
(* and constructed again from what "A" has become), and both are modified.   *)

NextCopy ==
    \/ ConstructDefault("A")
    \/ \E input \in Inputs : ConstructRange("A", input)
    \/ \E input \in Inputs : ConstructInitList("A", input)
    \/ ConstructCopy("B", "A")
    \/ \E t \in Tables, k \in Keys, v \in Values : Insert(t, k, v)
    \/ \E t \in Tables, k \in Keys : Erase(t, k)
    \/ \E t \in Tables, k \in Keys, v \in Values : SubscriptAssign(t, k, v)
    \/ \E t \in Tables : Clear(t)
    \/ Destroy("B")

SpecCopy == Init /\ [][NextCopy]_vars

----------------------------------------------------------------------------
(* A program that assigns: the object "A" is constructed and modified, the   *)
(* object "B" is constructed from nothing or from a sequence (and destroyed  *)
(* and constructed again), and A = B is executed.                            *)

NextAssign ==
    \/ \E t \in Tables : ConstructDefault(t)
    \/ \E t \in Tables, input \in Inputs : ConstructRange(t, input)
    \/ \E t \in Tables, input \in Inputs : ConstructInitList(t, input)
    \/ \E k \in Keys, v \in Values : Insert("A", k, v)
    \/ \E k \in Keys : Erase("A", k)
    \/ \E k \in Keys, v \in Values : SubscriptAssign("A", k, v)
    \/ Clear("A")
    \/ Assign("A", "B")
    \/ Destroy("B")

SpecAssign == Init /\ [][NextAssign]_vars

----------------------------------------------------------------------------
(* Properties *)

\* Slots(h): the places <<bucket index, position in chain>> of the bucket index.
Slots(h) == {bp \in (1..Len(h.table)) \X (1..Len(h.content) + 1) : bp[2] <= Len(h.table[bp[1]])}
ChainsFit(h) == \A b \in 1..Len(h.table) : Len(h.table[b]) <= Len(h.content) + 1
RefsTo(h, n) == {bp \in Slots(h) : h.table[bp[1]][bp[2]] = n}
RECURSIVE SumOfLensTo(_, _)
SumOfLensTo(table, n) == IF n = 0 THEN 0 ELSE Len(table[n]) + SumOfLensTo(table, n - 1)
SumOfLens(table) == SumOfLensTo(table, Len(table))
KeysOf(h) == {h.content[i].first : i \in 1..Len(h.content)}
Grew(t) == last.t = t /\ last.op \in {"insert", "operator[]"} /\ tbl[t].capacity > 2

DualMembership(h) ==
    /\ ChainsFit(h)
    /\ \A i, j \in 1..Len(h.content) : h.content[i].node = h.content[j].node => i = j
    /\ \A i \in 1..Len(h.content) :
           /\ Cardinality(RefsTo(h, h.content[i].node)) = 1
           /\ \A bp \in RefsTo(h, h.content[i].node) :
                  bp[1] = (h.hasher[h.content[i].first] % h.capacity) + 1
    /\ \A bp \in Slots(h) : h.table[bp[1]][bp[2]] \in Nodes(h.content)

\* C1: in every reachable state, every record of every constructed table is at
\* exactly one position of the record store and is referenced by exactly one
\* chain entry, in the bucket hash(key) mod capacity; no chain holds a
\* reference to a node that is not in the record store.
C1_DualMembership == \A t \in live : DualMembership(tbl[t])

\* C1 witness: an insert has just grown a table in which two records share a chain.
C1_Witness ==
    \E t \in live :
        /\ Grew(t)
        /\ Len(tbl[t].content) >= 2
        /\ \E b \in 1..Len(tbl[t].table) : Len(tbl[t].table[b]) >= 2

\* C2: in every reachable state no two records of a table have the same key.
C2_UniqueKeys ==
    \A t \in live :
        \A i, j \in 1..Len(tbl[t].content) :
            tbl[t].content[i].first = tbl[t].content[j].first => i = j

\* C2 witness: the initializer-list constructor has built a table from an input
\* of MaxInput pairs (the capacity shows its length) that repeats a key.
C2_Witness ==
    \E t \in live :
        /\ last.t = t
        /\ last.op = "HashMapInitList"
        /\ tbl[t].capacity = MaxInput * (IF rev = "v1" THEN 1 ELSE capacityInflation)
        /\ Len(tbl[t].content) >= 1
        /\ Len(tbl[t].content) < MaxInput

\* C3: size() equals the record-store length and the sum of the chain
\* lengths, and empty() is true exactly when size() = 0.
C3_SizeAgrees ==
    \A t \in live :
        /\ size(tbl[t]) = Len(tbl[t].content)
        /\ size(tbl[t]) = SumOfLens(tbl[t].table)
        /\ empty(tbl[t]) <=> (size(tbl[t]) = 0)

\* C3 witness: a copy-assignment has just given a table two records.
C3_Witness ==
    \E t \in live : last.op = "operator=" /\ last.t = t /\ size(tbl[t]) = 2

\* C4: size <= capacity after every mutating operation.
C4_SizeWithinCapacity == \A t \in live : size(tbl[t]) <= tbl[t].capacity

\* C4 restricted to the last revision, where it holds.
C4_SizeWithinCapacity_v3 == rev = "v3" => C4_SizeWithinCapacity

\* C5 (state part): capacity >= 1 and equals the bucket array's length.
C5_CapacityIsTableLength ==
    \A t \in live : tbl[t].capacity >= 1 /\ tbl[t].capacity = Len(tbl[t].table)

\* C5: capacity is >= 1, equals the length of the bucket array, and no call on
\* an object (insert, subscript, erase, clear, copy-assignment to it) lowers it.
C5_CapacityNeverDecreases ==
    [][/\ C5_CapacityIsTableLength
       /\ \A t \in live \cap live' : tbl'[t].capacity >= tbl[t].capacity]_vars

\* C5 (v3): the same property in the last revision only, where it holds.
C5_CapacityNeverDecreases_v3 ==
    [][rev = "v3" =>
          /\ C5_CapacityIsTableLength
          /\ \A t \in live \cap live' : tbl'[t].capacity >= tbl[t].capacity]_vars

\* C6: the table refines the mathematical map run beside it: for every key k,
\* find(k) is a handle to a record with key k and the map's value when k is in
\* the map's domain and is end() when it is not, and size() is the size of the
\* map's domain.
C6_RefinesMap ==
    \A t \in live :
        /\ size(tbl[t]) = Cardinality(DOMAIN absmap[t])
        /\ \A k \in Keys :
               IF k \in DOMAIN absmap[t]
               THEN /\ find(tbl[t], k) # End
                    /\ Deref(tbl[t].content, find(tbl[t], k)).first = k
                    /\ Deref(tbl[t].content, find(tbl[t], k)).second = absmap[t][k]
               ELSE find(tbl[t], k) = End

\* C6 witness: a subscript-and-assign has just overwritten the value of a stored
\* key in a table that holds another key as well.
C6_Witness ==
    \E t \in live :
        /\ last.op = "operator[]" /\ last.t = t /\ last.hit
        /\ last.v # DefaultValue
        /\ Cardinality(DOMAIN absmap[t]) >= 2

\* C7: after any sequence of insert calls on an empty table, with repeated keys
\* and colliding keys, size() is the number of distinct keys inserted.
C7_SizeIsDistinctKeys ==
    \A t \in live : size(tbl[t]) = Cardinality(inserted[t])

\* C7 witness: a key has just been inserted a second time into a table that
\* holds two keys in one chain.
C7_Witness ==
    \E t \in live :
        /\ last.op = "insert" /\ last.t = t /\ last.hit
        /\ Cardinality(inserted[t]) = 2
        /\ \E b \in 1..Len(tbl[t].table) : Len(tbl[t].table[b]) = 2

\* C8: insert(k, v) with k absent makes find(k) denote a record with key k and
\* value v; insert(k, v) with k stored leaves the record store (values and
\* order), the size and the capacity as they were.
C8_Insert ==
    [][\A t \in live \cap live' :
           (last'.op = "insert" /\ last'.t = t) =>
               IF find(tbl[t], last'.k) = End
               THEN /\ find(tbl'[t], last'.k) # End
                    /\ Deref(tbl'[t].content, find(tbl'[t], last'.k)).first = last'.k
                    /\ Deref(tbl'[t].content, find(tbl'[t], last'.k)).second = last'.v
               ELSE /\ tbl'[t].content = tbl[t].content
                    /\ tbl'[t].sz = tbl[t].sz
                    /\ tbl'[t].capacity = tbl[t].capacity]_vars

\* C8 witness: an insert of a stored key with another value has just returned,
\* and the stored value is not the inserted one.
C8_Witness ==
    \E t \in live :
        /\ last.op = "insert" /\ last.t = t /\ last.hit
        /\ ~at(tbl[t], last.k).thrown
        /\ at(tbl[t], last.k).value # last.v

\* C9: erase(k) with k stored removes exactly k's record: find(k) is end()
\* afterwards, the node is in no chain, size is one less, and the other records
\* keep their nodes, values and relative order and are found as before.
C9_ErasePresent ==
    [][\A t \in live \cap live' :
           (last'.op = "erase" /\ last'.t = t /\ last'.k \in KeysOf(tbl[t])) =>
               /\ find(tbl'[t], last'.k) = End
               /\ tbl'[t].sz = tbl[t].sz - 1
               /\ tbl'[t].content = SelectSeq(tbl[t].content, LAMBDA r : r.first # last'.k)
               /\ \A bp \in Slots(tbl'[t]) :
                      tbl'[t].table[bp[1]][bp[2]] # find(tbl[t], last'.k)
               /\ \A k \in Keys \ {last'.k} :
                      /\ find(tbl'[t], k) = find(tbl[t], k)
                      /\ at(tbl'[t], k) = at(tbl[t], k)]_vars

\* C9 witness: an erase of a stored key has just returned and left a record
\* of another key behind.
C9_Witness ==
    \E t \in live :
        /\ last.op = "erase" /\ last.t = t /\ last.hit
        /\ Len(tbl[t].content) >= 1

\* C10: erase(k) with k not stored changes nothing of the table.
C10_EraseAbsent ==
    [][\A t \in live \cap live' :
           (last'.op = "erase" /\ last'.t = t /\ last'.k \notin KeysOf(tbl[t])) =>
               tbl'[t] = tbl[t]]_vars

\* C10 witness: an erase of a key that is not stored has just returned, and the
\* key's bucket holds the record of a colliding key.
C10_Witness ==
    \E t \in live :
        /\ last.op = "erase" /\ last.t = t /\ ~last.hit
        /\ tbl[t].table[Bucket(tbl[t], last.k) + 1] # <<>>

\* C11: at(k) throws exactly when no record has the key k, otherwise it returns
\* the value stored for k (the second of the record with key k, which is the
\* map's value); whether it throws or returns, no member of the object changes.
C11_At ==
    [][\A t \in live :
           (last'.op = "at" /\ last'.t = t) =>
               /\ last'.ret.thrown <=> (last'.k \notin KeysOf(tbl[t]))
               /\ last'.ret.thrown <=> (last'.k \notin DOMAIN absmap[t])
               /\ ~last'.ret.thrown =>
                      /\ last'.ret.value = absmap[t][last'.k]
                      /\ \E i \in 1..Len(tbl[t].content) :
                             /\ tbl[t].content[i].first = last'.k
                             /\ tbl[t].content[i].second = last'.ret.value
               /\ last'.ret.thrown => last'.ret = KeyNotFound
               /\ tbl' = tbl]_vars

\* C11 witness: at(k) has just returned the value of a key that is not the first
\* of its chain, and the first of the chain has another value.
C11_Witness ==
    \E t \in live :
        /\ last.op = "at" /\ last.t = t /\ ~last.ret.thrown
        /\ LET chain == tbl[t].table[Bucket(tbl[t], last.k) + 1]
           IN  /\ Len(chain) >= 2
               /\ Deref(tbl[t].content, chain[1]).first # last.k
               /\ Deref(tbl[t].content, chain[1]).second # last.ret.value

\* C11 witness of the other outcome: at(k) has just thrown on a table that
\* holds a record of another key in k's chain.
C11_WitnessThrown ==
    \E t \in live :
        /\ last.op = "at" /\ last.t = t /\ last.ret.thrown
        /\ tbl[t].table[Bucket(tbl[t], last.k) + 1] # <<>>

\* C12: in every reachable state, no call other than at can fail: a constructor
\* of an object not yet constructed, given any input sequence, and insert,
\* erase, find, operator[], clear, the copy constructor and operator= (from
\* itself or from the other object) on a constructed object never take a
\* modulus by capacity 0, never index the bucket array at or beyond its length,
\* and operator[] never dereferences the front of an empty record store.
C12_NoOtherFailure ==
    /\ \A t \in live :
           /\ tbl[t].capacity # 0
           /\ tbl[t].capacity <= Len(tbl[t].table)
           /\ ~clear_faults(tbl[t])
           /\ \A k \in Keys :
                  /\ ~find_faults(tbl[t], k)
                  /\ ~erase_faults(tbl[t], k)
                  /\ ~subscript_faults(t, tbl[t], k)
                  /\ \A v \in Values : ~insert_faults(t, tbl[t], [first |-> k, second |-> v])
           /\ \A o \in Tables \ {t} : ~HashMapCopy_faults(o, tbl[t])
           /\ \A o \in live : ~assign_faults(t, tbl[t], tbl[o], t = o)
    /\ \A t \in Tables \ live :
           \A input \in Inputs :
               /\ ~HashMapRange_faults(t, input, Hash)
               /\ ~HashMapInitList_faults(t, input, Hash)

\* C12 witness: operator[] of a missing key has just returned on a table that
\* was empty and had more than one bucket when it was called.
C12_Witness ==
    \E t \in live :
        /\ last.op = "operator[]" /\ last.t = t /\ ~last.hit
        /\ last.n = 0 /\ last.c >= 2
        /\ tbl[t].content # <<>>

\* C13: operator[](k) with k missing adds one record <<k, ValueType()>>, size
\* grows by 1, the capacity stays or doubles, the returned reference is to the
\* new record (a node that was not in the list) and find(k) denotes it, the
\* other keys keep their values; with k stored it changes no member and the
\* reference is to the record find(k) denotes.  A write through the reference
\* is the value find(k) and at(k) give afterwards, and no other key's.
C13_Subscript ==
    [][\A t \in live \cap live' :
           (last'.op = "operator[]" /\ last'.t = t) =>
               LET h == tbl[t]
                   k == last'.k
                   r == subscript(t, h, k)
               IN  /\ IF k \notin KeysOf(h)
                      THEN /\ size(r.map) = size(h) + 1
                           /\ r.map.capacity \in {h.capacity, 2 * h.capacity}
                           /\ r.ref # End
                           /\ r.ref \notin Nodes(h.content)
                           /\ Deref(r.map.content, r.ref).first = k
                           /\ Deref(r.map.content, r.ref).second = DefaultValue
                           /\ find(r.map, k) = r.ref
                           /\ \A j \in Keys \ {k} : at(r.map, j) = at(h, j)
                      ELSE /\ r.map = h
                           /\ r.ref = find(h, k)
                           /\ Deref(h.content, r.ref).first = k
                   /\ size(tbl'[t]) = size(r.map)
                   /\ find(tbl'[t], k) = r.ref
                   /\ Deref(tbl'[t].content, find(tbl'[t], k)).second = last'.v
                   /\ at(tbl'[t], k) = [thrown |-> FALSE, value |-> last'.v]
                   /\ \A j \in Keys \ {k} : at(tbl'[t], j) = at(h, j)]_vars

\* C13 witness: m[k] = v has just written a value other than the default to a
\* stored key whose record is not at the front of the record store, and at(k)
\* gives that value.
C13_Witness ==
    \E t \in live :
        /\ last.op = "operator[]" /\ last.t = t /\ last.hit
        /\ last.v # DefaultValue
        /\ tbl[t].content[1].first # last.k
        /\ at(tbl[t], last.k).value = last.v

\* C13 witness of the other case: m[k] = v with k missing has just grown the table.
C13_WitnessMissing ==
    \E t \in live :
        /\ last.op = "operator[]" /\ last.t = t /\ ~last.hit
        /\ tbl[t].capacity = 2 * last.c
        /\ size(tbl[t]) = last.n + 1 /\ last.n >= 1

\* The members of a table of the given capacity that holds nothing.
FreshTable(hasher, capacity) ==
    [hasher |-> hasher, content |-> <<>>, capacity |-> capacity,
     table |-> EmptyTable(capacity), sz |-> 0]

\* C14: after clear(), size() is 0, the record store is empty, every chain is
\* empty, every key is absent (find gives end(), at throws), the capacity and
\* the bucket array's length are what they were; the members are those of an
\* empty table of that capacity, so an insert gives the members it gives on
\* such a table (and so does every call after it), with the key stored.
C14_Clear ==
    [][\A t \in live \cap live' :
           (last'.op = "clear" /\ last'.t = t) =>
               /\ size(tbl'[t]) = 0
               /\ empty(tbl'[t])
               /\ tbl'[t].content = <<>>
               /\ \A b \in 1..Len(tbl'[t].table) : tbl'[t].table[b] = <<>>
               /\ tbl'[t].capacity = tbl[t].capacity
               /\ Len(tbl'[t].table) = Len(tbl[t].table)
               /\ \A k \in Keys : find(tbl'[t], k) = End /\ at(tbl'[t], k).thrown
               /\ tbl'[t] = FreshTable(tbl[t].hasher, tbl[t].capacity)
               /\ \A k \in Keys, v \in Values :
                      LET one == insert(t, tbl'[t], [first |-> k, second |-> v])
                          ref == insert(t, FreshTable(tbl[t].hasher, tbl[t].capacity),
                                        [first |-> k, second |-> v])
                      IN  /\ one = ref
                          /\ size(one) = 1
                          /\ at(one, k) = [thrown |-> FALSE, value |-> v]]_vars

\* C14 witness: clear() has just returned on a table that held two records in
\* more than one bucket; it is empty and has the capacity it had.
C14_Witness ==
    \E t \in live :
        /\ last.op = "clear" /\ last.t = t
        /\ last.n >= 2 /\ last.c >= 2
        /\ tbl[t].capacity = last.c
        /\ tbl[t].content = <<>>

\* Two record stores hold the same pairs in the same order.
SamePairs(c1, c2) ==
    /\ Len(c1) = Len(c2)
    /\ \A i \in 1..Len(c1) : c1[i].first = c2[i].first /\ c1[i].second = c2[i].second

\* The nodes object t's members refer to: those of its list and of its chains.
ChainRefs(h) ==
    UNION {{h.table[b][j] : j \in 1..Len(h.table[b])} : b \in 1..Len(h.table)}
RefsOf(h) == Nodes(h.content) \cup ChainRefs(h)

\* No storage is shared: every node t refers to is a node of t's own list, on
\* t's own heap, and is no node of another object's list.
OwnStorage(t) ==
    LET refs == RefsOf(tbl[t])
    IN  /\ refs \subseteq Nodes(tbl[t].content)
        /\ \A n \in refs : n[1] = t
        /\ \A o \in live \ {t} : refs \cap RefsOf(tbl[o]) = {}

\* C15: the copy constructor gives the new object the pairs of the other one
\* (same order, same size, same hasher) in nodes and chains of its own and
\* leaves the other object as it was; after every call on an object, that
\* object refers to no node of another (so that erase, clear and a write
\* through operator[] on one reach only its own list); and insert, erase,
\* m[k] = v and clear on one
\* object leave the members of the other, and what find and at give on it,
\* unchanged.
C15_CopyIndependence ==
    [][/\ \A t \in live' \cap {last'.t} : OwnStorage(t)'
       /\ \A t \in live' \cap {last'.t} : \A o \in (live \cap live') \ {t} :
              /\ (last'.op = "HashMapCopy" /\ last'.o = o) =>
                     /\ SamePairs(tbl'[t].content, tbl[o].content)
                     /\ size(tbl'[t]) = size(tbl[o])
                     /\ hash_function(tbl'[t]) = hash_function(tbl[o])
                     /\ \A k \in Keys : at(tbl'[t], k) = at(tbl[o], k)
                     /\ DualMembership(tbl'[t])
                     /\ RefsOf(tbl'[t]) \cap RefsOf(tbl[o]) = {}
                     /\ tbl'[o] = tbl[o]
              /\ (last'.op \in {"insert", "erase", "operator[]", "clear"}) =>
                     /\ tbl'[o] = tbl[o]
                     /\ \A k \in Keys : /\ find(tbl'[o], k) = find(tbl[o], k)
                                         /\ at(tbl'[o], k) = at(tbl[o], k)]_vars

\* C15 witness: of an object and its copy, erase(k) has just removed k from
\* one; its remaining pairs are those of the other without k, in the same
\* order, and the other still holds k.
C15_Witness ==
    \E t \in live : \E o \in live \ {t} :
        /\ last.op = "erase" /\ last.t = t /\ last.hit
        /\ last.n = size(tbl[o]) /\ last.n >= 2
        /\ SamePairs(tbl[t].content,
                     SelectSeq(tbl[o].content, LAMBDA r : r.first # last.k))
        /\ ~at(tbl[o], last.k).thrown
        /\ at(tbl[t], last.k).thrown

\* C15 witness of the copy itself: the copy constructor has just built an
\* object of two records from the other object.
C15_WitnessCopy ==
    \E t \in live : \E o \in live \ {t} :
        /\ last.op = "HashMapCopy" /\ last.t = t /\ last.o = o
        /\ size(tbl[t]) >= 2
        /\ SamePairs(tbl[t].content, tbl[o].content)

\* C16: self-assignment m = m leaves size() and the pairs of m (keys, values
\* and their order; so also what at gives for every key) as they were, and m
\* satisfies the record-store / bucket-index consistency afterwards.
C16_SelfAssignment ==
    [][\A t \in live \cap live' :
           (last'.op = "operator=" /\ last'.t = t /\ last'.o = t) =>
               /\ size(tbl'[t]) = size(tbl[t])
               /\ SamePairs(tbl'[t].content, tbl[t].content)
               /\ \A k \in Keys : at(tbl'[t], k) = at(tbl[t], k)
               /\ empty(tbl'[t]) = empty(tbl[t])
               /\ DualMembership(tbl'[t])
               /\ size(tbl'[t]) = SumOfLens(tbl'[t].table)]_vars

\* C16 witness: m = m has just returned on a table of two records.
C16_Witness ==
    \E t \in live :
        /\ last.op = "operator=" /\ last.t = t /\ last.o = t
        /\ last.n = 2
        /\ size(tbl[t]) = 2
        /\ Len(tbl[t].content) = 2

\* C16 witness of the empty case: m = m has just returned on an empty table.
C16_WitnessEmpty ==
    \E t \in live :
        /\ last.op = "operator=" /\ last.t = t /\ last.o = t
        /\ last.n = 0 /\ last.c >= 2
        /\ tbl[t].content = <<>>

\* C17: after every insert, whether or not it grows the table, every key that
\* was stored is still found, in a record of that key, with the value it had
\* (the value it was first given), the inserted key is found, with the inserted
\* value if it was missing, and no other key has appeared.
C17_GrowthKeepsEntries ==
    [][\A t \in live \cap live' :
           (last'.op = "insert" /\ last'.t = t) =>
               /\ \A k \in KeysOf(tbl[t]) :
                      /\ find(tbl'[t], k) # End
                      /\ Deref(tbl'[t].content, find(tbl'[t], k)).first = k
                      /\ at(tbl'[t], k) = at(tbl[t], k)
                      /\ at(tbl'[t], k) = [thrown |-> FALSE, value |-> absmap[t][k]]
               /\ find(tbl'[t], last'.k) # End
               /\ last'.k \notin KeysOf(tbl[t]) =>
                      at(tbl'[t], last'.k) = [thrown |-> FALSE, value |-> last'.v]
               /\ KeysOf(tbl'[t]) = KeysOf(tbl[t]) \cup {last'.k}]_vars

\* C17 witness: an insert of a new key has just doubled the capacity of a table
\* that held a record, and both keys are found.
C17_Witness ==
    \E t \in live :
        /\ last.op = "insert" /\ last.t = t /\ ~last.hit
        /\ last.n >= 1
        /\ tbl[t].capacity = 2 * last.c
        /\ \A k \in KeysOf(tbl[t]) : find(tbl[t], k) # End
        /\ Cardinality(KeysOf(tbl[t])) = last.n + 1

\* The keys of a sequence of pairs, and the value of a key's first occurrence.
InputKeys(input) == {input[i].first : i \in 1..Len(input)}
FirstValue(input, k) ==
    input[CHOOSE i \in 1..Len(input) :
              /\ input[i].first = k
              /\ \A j \in 1..(i - 1) : input[j].first # k].second

\* C18: a table just built by the iterator-range or the initializer-list
\* constructor from a sequence (the empty one included) holds exactly one record
\* for each key of the sequence and none for any other key, at(k) is the value
\* of k's first occurrence in the sequence, and size() is the number of
\* distinct keys of the sequence.
C18_SequenceConstruction ==
    \A t \in live :
        (last.t = t /\ last.op \in {"HashMapRange", "HashMapInitList"}) =>
            /\ size(tbl[t]) = Cardinality(InputKeys(last.input))
            /\ Len(tbl[t].content) = Cardinality(InputKeys(last.input))
            /\ KeysOf(tbl[t]) = InputKeys(last.input)
            /\ empty(tbl[t]) <=> (last.input = <<>>)
            /\ \A k \in Keys :
                   IF k \in InputKeys(last.input)
                   THEN /\ at(tbl[t], k) =
                              [thrown |-> FALSE, value |-> FirstValue(last.input, k)]
                        /\ Cardinality({i \in 1..Len(tbl[t].content) :
                                            tbl[t].content[i].first = k}) = 1
                   ELSE at(tbl[t], k).thrown

\* C18 witness: a sequence constructor has just built a table from a sequence
\* that gives one key two different values, and at gives the first of them.
C18_Witness ==
    \E t \in live :
        /\ last.t = t /\ last.op \in {"HashMapRange", "HashMapInitList"}
        /\ Len(last.input) = 2
        /\ last.input[1].first = last.input[2].first
        /\ last.input[1].second # last.input[2].second
        /\ at(tbl[t], last.input[1].first).value = last.input[1].second
        /\ size(tbl[t]) = 1

\* C18 witness of the empty sequence.
C18_WitnessEmpty ==
    \E t \in live :
        /\ last.t = t /\ last.op \in {"HashMapRange", "HashMapInitList"}
        /\ last.input = <<>>
        /\ size(tbl[t]) = 0 /\ tbl[t].capacity = 1

\* The pairs of a sequence whose key has not occurred before, in order.
RECURSIVE KeepFirst(_, _)
KeepFirst(input, seen) ==
    IF input = <<>> THEN <<>>
    ELSE IF Head(input).first \in seen THEN KeepFirst(Tail(input), seen)
    ELSE <<Head(input)>> \o KeepFirst(Tail(input), seen \cup {Head(input).first})

RECURSIVE Reverse(_)
Reverse(s) == IF s = <<>> THEN <<>> ELSE Append(Reverse(Tail(s)), Head(s))

\* C19: after every call, the iteration from begin() to end() visits the
\* records of the record store, each once, in the store's order, size() of
\* them.  That order is most recent first: an insert or m[k] = v of a missing
\* key puts the new record in front of the others, which keep their nodes,
\* values and order, whether or not the table grows; with a stored key the
\* order is unchanged; erase takes out the key's record and leaves the others
\* in their order; a sequence constructor leaves the pairs it kept in the
\* reverse of their order in the sequence.
C19_IterationOrder ==
    [][\A t \in live' \cap {last'.t} :
           /\ Iteration(tbl'[t]) = tbl'[t].content
           /\ Len(Iteration(tbl'[t])) = size(tbl'[t])
           /\ \A i, j \in 1..Len(tbl'[t].content) :
                  tbl'[t].content[i].node = tbl'[t].content[j].node => i = j
           /\ (t \in live /\ last'.op \in {"insert", "operator[]"}) =>
                  IF last'.k \notin KeysOf(tbl[t])
                  THEN /\ tbl'[t].content # <<>>
                       /\ tbl'[t].content[1].first = last'.k
                       /\ tbl'[t].content[1].second = last'.v
                       /\ Tail(tbl'[t].content) = tbl[t].content
                  ELSE /\ Len(tbl'[t].content) = Len(tbl[t].content)
                       /\ \A i \in 1..Len(tbl[t].content) :
                              /\ tbl'[t].content[i].node = tbl[t].content[i].node
                              /\ tbl'[t].content[i].first = tbl[t].content[i].first
                              /\ (last'.op = "insert" \/ tbl[t].content[i].first # last'.k)
                                     => tbl'[t].content[i].second = tbl[t].content[i].second
           /\ (t \in live /\ last'.op = "erase") =>
                  tbl'[t].content = SelectSeq(tbl[t].content, LAMBDA r : r.first # last'.k)
           /\ last'.op \in {"HashMapRange", "HashMapInitList"} =>
                  SamePairs(tbl'[t].content, Reverse(KeepFirst(last'.input, {})))]_vars

\* C19 witness: an insert of a new key has just grown a table; the iteration
\* visits the new record first and then the record that was stored before.
C19_Witness ==
    \E t \in live :
        /\ last.op = "insert" /\ last.t = t /\ ~last.hit
        /\ last.n = 1 /\ tbl[t].capacity > last.c
        /\ Len(Iteration(tbl[t])) = 2
        /\ Iteration(tbl[t])[1].first = last.k
        /\ Iteration(tbl[t])[2].first # last.k

\* C19 witness for erase: erase has just removed the first of two records.
C19_WitnessErase ==
    \E t \in live :
        /\ last.op = "erase" /\ last.t = t /\ last.hit
        /\ last.n = 2
        /\ Len(Iteration(tbl[t])) = 1

\* What C20 says of one call on t that adds the key last'.k.
GrowthDoubles(t) ==
    (last'.op \in {"insert", "operator[]"} /\ last'.t = t /\ last'.k \notin KeysOf(tbl[t])) =>
        /\ tbl'[t].capacity \in {tbl[t].capacity, 2 * tbl[t].capacity}
        /\ size(tbl'[t]) >= tbl[t].capacity => tbl'[t].capacity = 2 * tbl[t].capacity
        /\ tbl'[t].capacity # tbl[t].capacity =>
               /\ Len(tbl'[t].table) = tbl'[t].capacity
               /\ DualMembership(tbl'[t])
               /\ size(tbl'[t]) = SumOfLens(tbl'[t].table)
               /\ Tail(tbl'[t].content) = tbl[t].content

\* C20: an insert or operator[] that adds a key leaves the capacity as it was
\* or doubles it, and doubles it whenever size() after the insertion is at
\* least the capacity the table had; when the capacity changes the bucket
\* array has the new length and holds every record in the bucket of its key for
\* the new capacity, and the record store is the old one behind the new record.
C20_GrowthDoubles ==
    [][\A t \in live \cap live' : GrowthDoubles(t)]_vars

\* C20 in the last revision only, where it holds.
C20_GrowthDoubles_v3 ==
    [][rev = "v3" => \A t \in live \cap live' : GrowthDoubles(t)]_vars

\* C20, last revision: an insert has just doubled the capacity of a table that
\* held a record.
C20_Witness_v3 ==
    \E t \in live :
        /\ rev = "v3"
        /\ last.op \in {"insert", "operator[]"} /\ last.t = t /\ ~last.hit
        /\ last.n >= 1 /\ tbl[t].capacity = 2 * last.c

\* C20, first revision: a table whose size() is above its capacity, which add()
\* does not grow.
C20_Stuck_v1 ==
    \E t \in live :
        /\ rev = "v1"
        /\ last.op \in {"insert", "operator[]"} /\ last.t = t /\ ~last.hit
        /\ tbl[t].capacity = last.c
        /\ size(tbl[t]) > tbl[t].capacity

\* C21: the iterator find(k) returned before a call stays an iterator to a node
\* of the list, with key k, and is what find(k) returns after the call, across
\* insert and m[j] = v of any key (growing the table or not) and across erase of
\* another key; the value read through it is the value it had, or the value
\* just written by m[k] = v, and is what at(k) gives.  After erase(k) and after
\* clear() it denotes no node of the list.  (Step by step, so across any
\* sequence of such calls.)
C21_HandleStability ==
    [][\A t \in live \cap live' :
           last'.t = t =>
               \A k \in KeysOf(tbl[t]) :
                   LET it == find(tbl[t], k)
                   IN  /\ (\/ last'.op \in {"insert", "operator[]"}
                           \/ (last'.op = "erase" /\ last'.k # k)) =>
                              /\ it # End
                              /\ it \in Nodes(tbl'[t].content)
                              /\ Deref(tbl'[t].content, it).first = k
                              /\ find(tbl'[t], k) = it
                              /\ Deref(tbl'[t].content, it).second =
                                     (IF last'.op = "operator[]" /\ last'.k = k
                                      THEN last'.v
                                      ELSE Deref(tbl[t].content, it).second)
                              /\ at(tbl'[t], k) =
                                     [thrown |-> FALSE,
                                      value |-> Deref(tbl'[t].content, it).second]
                       /\ (last'.op = "erase" /\ last'.k = k) =>
                              /\ it \notin Nodes(tbl'[t].content)
                              /\ Deref(tbl'[t].content, it) = Dangling
                       /\ last'.op = "clear" => it \notin Nodes(tbl'[t].content)]_vars

\* C21 witness: m[j] = v of a missing key j has just doubled the capacity of a
\* table that held a record of another key; that record is behind the new one
\* in the list and find gives its node.
C21_Witness ==
    \E t \in live :
        /\ last.op = "operator[]" /\ last.t = t /\ ~last.hit
        /\ last.n >= 1 /\ tbl[t].capacity = 2 * last.c
        /\ \E k \in KeysOf(tbl[t]) \ {last.k} :
               /\ find(tbl[t], k) # End
               /\ find(tbl[t], k) # begin(tbl[t].content)
               /\ Deref(tbl[t].content, find(tbl[t], k)).first = k

\* C21 witness for erase: erase has just removed one of two records, and find
\* gives the node of the other, now the front of the list.
C21_WitnessErase ==
    \E t \in live :
        /\ last.op = "erase" /\ last.t = t /\ last.hit /\ last.n = 2
        /\ \E k \in KeysOf(tbl[t]) : k # last.k /\ find(tbl[t], k) = begin(tbl[t].content)

\* C22: t = o between two distinct objects leaves t with the pairs of o in o's
\* order (so at gives on t what it gives on o, and no pair t held remains),
\* size() that of o and the length of the list, every node of the list in
\* exactly one chain, that of its key, and no other iterator in any chain; t
\* refers to no node of o, and in the first revision, where the old nodes are
\* freed after the new ones are allocated, to none of its former nodes; o is
\* unchanged.
C22_Assign ==
    [][\A t \in live \cap live' : \A o \in (live \cap live') \ {t} :
           (last'.op = "operator=" /\ last'.t = t /\ last'.o = o) =>
               /\ SamePairs(tbl'[t].content, tbl[o].content)
               /\ SamePairs(Iteration(tbl'[t]), Iteration(tbl[o]))
               /\ \A k \in Keys : at(tbl'[t], k) = at(tbl[o], k)
               /\ size(tbl'[t]) = size(tbl[o])
               /\ size(tbl'[t]) = Len(tbl'[t].content)
               /\ size(tbl'[t]) = SumOfLens(tbl'[t].table)
               /\ empty(tbl'[t]) = empty(tbl[o])
               /\ DualMembership(tbl'[t])
               /\ tbl'[t].capacity >= 1
               /\ Len(tbl'[t].table) = tbl'[t].capacity
               /\ RefsOf(tbl'[t]) \cap RefsOf(tbl[o]) = {}
               /\ rev = "v1" => RefsOf(tbl'[t]) \cap Nodes(tbl[t].content) = {}
               /\ tbl'[o] = tbl[o]]_vars

\* C22 witness: t = o has just returned on a t that held two records, with o
\* holding one: t holds o's pair only.
C22_Witness ==
    \E t \in live : \E o \in live \ {t} :
        /\ last.op = "operator=" /\ last.t = t /\ last.o = o
        /\ last.n = 2
        /\ size(tbl[o]) = 1
        /\ SamePairs(tbl[t].content, tbl[o].content)

\* C22 witness: t = o with t empty and o of two records.
C22_WitnessSmaller ==
    \E t \in live : \E o \in live \ {t} :
        /\ last.op = "operator=" /\ last.t = t /\ last.o = o
        /\ last.n = 0
        /\ size(tbl[o]) = 2
        /\ SamePairs(tbl[t].content, tbl[o].content)

\* C22 witness: t = o with t of two records and o empty.
C22_WitnessEmptyOther ==
    \E t \in live : \E o \in live \ {t} :
        /\ last.op = "operator=" /\ last.t = t /\ last.o = o
        /\ last.n = 2 /\ last.c >= 2
        /\ size(tbl[o]) = 0
        /\ tbl[t].content = <<>>

Queries == {"size", "empty", "find", "at", "hash_function", "iteration"}

\* C23: size(), empty(), find(k), at(k), hash_function() and an iteration from
\* begin() to end(), called on any reachable table with any key, stored or
\* not, leave size, capacity, the record store (pairs, nodes and order), every
\* chain and the hasher as they were, and return what the table holds.
C23_QueriesDoNotModify ==
    [][\A t \in live :
           (last'.op \in Queries /\ last'.t = t) =>
               /\ t \in live'
               /\ size(tbl'[t]) = size(tbl[t])
               /\ tbl'[t].capacity = tbl[t].capacity
               /\ tbl'[t].content = tbl[t].content
               /\ tbl'[t].table = tbl[t].table
               /\ tbl'[t].hasher = tbl[t].hasher
               /\ tbl' = tbl
               /\ last'.op = "size" => last'.ret.value = Len(tbl[t].content)
               /\ last'.op = "empty" => (last'.ret.value <=> tbl[t].content = <<>>)
               /\ last'.op = "hash_function" => last'.ret.value = Hash
               /\ last'.op = "find" =>
                      IF last'.k \in KeysOf(tbl[t])
                      THEN Deref(tbl[t].content, last'.ret.value).first = last'.k
                      ELSE last'.ret.value = End
               /\ last'.op = "iteration" => last'.ret.value = tbl[t].content]_vars

\* C23 witness: find(k) has just returned the node of a key that is not the
\* first of its chain.
C23_Witness ==
    \E t \in live :
        /\ last.op = "find" /\ last.t = t /\ last.hit
        /\ LET chain == tbl[t].table[Bucket(tbl[t], last.k) + 1]
           IN  Len(chain) = 2 /\ chain[2] = last.ret.value

\* C23 witness: find(k) of a key that is not stored has just returned end() on
\* a table that holds a record in k's chain.
C23_WitnessAbsent ==
    \E t \in live :
        /\ last.op = "find" /\ last.t = t /\ ~last.hit
        /\ last.ret.value = End
        /\ tbl[t].table[Bucket(tbl[t], last.k) + 1] # <<>>

\* C23 witness: an iteration has just visited two records.
C23_WitnessIteration ==
    \E t \in live :
        /\ last.op = "iteration" /\ last.t = t
        /\ Len(last.ret.value) = 2

====
